---- MODULE Spec2Model ----
(***************************************************************************)
(* Model of the impedance-matcher sketch (src/src/main.cpp): one polling   *)
(* loop that reads a mode switch, drives two servos either from two        *)
(* potentiometers (MANUAL) or from a simulated VSWR counter (AUTOMATED),   *)
(* and then waits a fixed delay.                                           *)
(***************************************************************************)
EXTENDS Integers, Sequences, FiniteSets, TLC

\* ------------------------------------------------------------- bounds ----
\* Number of loop iterations explored (34 automated iterations wrap the
\* simulated counter past 100).
MaxCycles == 35
\* Raw samples handed to the scaling step when it is checked as a pure
\* function: -RawBelow .. RawAbove, which contains [0,1023], -50 and 2000.
RawBelow == 64
RawAbove == 2047
\* Potentiometer positions sampled inside the full loop.
DialSamples == {0, 512, 1023}

\* -------------------------------------------------- program constants ----
HIGH == "HIGH"
LOW == "LOW"
AUTOMATED == "AUTOMATED"
MANUAL == "MANUAL"
\* map(x, 0, 1023, 0, 180): the literals of lines 70, 86, 87
IN_MIN == 0
IN_MAX == 1023
OUT_MIN == 0
OUT_MAX == 180
\* get_vswr: prev_vswr = (prev_vswr + 3) % 100
VSWR_STEP == 3
VSWR_MOD == 100
\* delay(1000)
DELAY_MS == 1000

VARIABLES
    pc,          \* position of loop(): "read" (l.47), "dispatch" (l.50), "delay" (l.55)
    state,       \* global State state
    prev_vswr,   \* global int prev_vswr
    tx_servo,    \* last value passed to tx_servo.write, <<>> before any write
    ant_servo,   \* last value passed to ant_servo.write, <<>> before any write
    serial,      \* last diagnostic line printed by a handler
    switchState, \* level returned by the last digitalRead(switchPin)
    clock,       \* time spent in delay() so far
    \* history variables (not program state): counts of what has happened
    reads,       \* calls of parseSwitchState
    autoCalls,   \* calls of controlServosAutomated
    manualCalls, \* calls of controlServosManual
    vswrCalls,   \* calls of get_vswr
    delays,      \* calls of delay
    prevMode,    \* value of state before the last mode read
    lowReads,    \* mode reads that returned LOW
    lowRun,      \* length of the current run of consecutive LOW reads
    runStart,    \* prev_vswr when the current run of LOW reads began
    runAuto,     \* automated calls since the current run began
    runManual    \* manual calls since the current run began

vars == <<pc, state, prev_vswr, tx_servo, ant_servo, serial, switchState, clock,
          reads, autoCalls, manualCalls, vswrCalls, delays, prevMode,
          lowReads, lowRun, runStart, runAuto, runManual>>

\* ------------------------------------------------------ pure functions ----

\* C integer division: truncation toward zero.
CDiv(a, b) ==
    IF b > 0
    THEN IF a >= 0 THEN a \div b ELSE -((-a) \div b)
    ELSE IF a >= 0 THEN -(a \div (-b)) ELSE (-a) \div (-b)

\* Arduino map(): (x - in_min) * (out_max - out_min) / (in_max - in_min) + out_min
\* in long arithmetic; it does not constrain x to [in_min, in_max].
map(x, in_min, in_max, out_min, out_max) ==
    CDiv((x - in_min) * (out_max - out_min), in_max - in_min) + out_min

\* faulty variants of parseSwitchState
parseSwitchState_inverted(level) ==
    IF level = HIGH THEN AUTOMATED ELSE MANUAL

parseSwitchState_sticky(level) ==
    IF state = AUTOMATED THEN AUTOMATED
    ELSE IF level = HIGH THEN MANUAL ELSE AUTOMATED

\* parseSwitchState, given the level digitalRead(switchPin) returned
parseSwitchState(level) ==
    IF level = HIGH THEN MANUAL ELSE AUTOMATED

\* faulty variant of get_vswr: the counter advances by 1
get_vswr_step1(p) ==
    (p + 1) % VSWR_MOD

\* faulty variant of get_vswr: the counter is not wrapped
get_vswr_nowrap(p) ==
    p + VSWR_STEP

\* get_vswr: the new value of prev_vswr (also the value returned), given the old
get_vswr(p) ==
    (p + VSWR_STEP) % VSWR_MOD

\* ------------------------------------------------------------ handlers ----

\* faulty variant: ant_servo is left where it was
controlServosAutomated_noAnt ==
    LET vswr == get_vswr(prev_vswr)
        tx_angle == map(vswr, IN_MIN, IN_MAX, OUT_MIN, OUT_MAX)
    IN  /\ prev_vswr' = vswr
        /\ vswrCalls' = vswrCalls + 1
        /\ tx_servo' = <<tx_angle>>
        /\ ant_servo' = ant_servo
        /\ serial' = [mode |-> AUTOMATED, vswr |-> vswr, tx_angle |-> tx_angle]

\* faulty variant: the signal is scaled from its own range [0,100]
controlServosAutomated_fullScale ==
    LET vswr == get_vswr(prev_vswr)
        tx_angle == map(vswr, IN_MIN, VSWR_MOD, OUT_MIN, OUT_MAX)
    IN  /\ prev_vswr' = vswr
        /\ vswrCalls' = vswrCalls + 1
        /\ tx_servo' = <<tx_angle>>
        /\ ant_servo' = <<0>>
        /\ serial' = [mode |-> AUTOMATED, vswr |-> vswr, tx_angle |-> tx_angle]

controlServosAutomated ==
    LET vswr == get_vswr(prev_vswr)
        tx_angle == map(vswr, IN_MIN, IN_MAX, OUT_MIN, OUT_MAX)
    IN  /\ prev_vswr' = vswr
        /\ vswrCalls' = vswrCalls + 1
        /\ tx_servo' = <<tx_angle>>
        /\ ant_servo' = <<0>>
        /\ serial' = [mode |-> AUTOMATED, vswr |-> vswr, tx_angle |-> tx_angle]

\* the diagnostic line of the manual handler
manualLine(t, a, tx_angle, ant_angle) ==
    [mode |-> MANUAL, tx_dial |-> t, tx_angle |-> tx_angle,
     ant_dial |-> a, ant_angle |-> ant_angle]

\* faulty variant: the two channels are crossed
controlServosManual_crossed(tx_dial, ant_dial) ==
    LET tx_angle == map(ant_dial, IN_MIN, IN_MAX, OUT_MIN, OUT_MAX)
        ant_angle == map(tx_dial, IN_MIN, IN_MAX, OUT_MIN, OUT_MAX)
    IN  /\ tx_servo' = <<tx_angle>>
        /\ ant_servo' = <<ant_angle>>
        /\ serial' = manualLine(tx_dial, ant_dial, tx_angle, ant_angle)
        /\ UNCHANGED <<prev_vswr, vswrCalls>>

\* faulty variant: the sample is constrained to [0,1023] before it is mapped
constrain(x, lo, hi) ==
    IF x < lo THEN lo ELSE IF x > hi THEN hi ELSE x

controlServosManual_constrained(tx_dial, ant_dial) ==
    LET tx_angle == map(constrain(tx_dial, IN_MIN, IN_MAX), IN_MIN, IN_MAX, OUT_MIN, OUT_MAX)
        ant_angle == map(constrain(ant_dial, IN_MIN, IN_MAX), IN_MIN, IN_MAX, OUT_MIN, OUT_MAX)
    IN  /\ tx_servo' = <<tx_angle>>
        /\ ant_servo' = <<ant_angle>>
        /\ serial' = manualLine(tx_dial, ant_dial, tx_angle, ant_angle)
        /\ UNCHANGED <<prev_vswr, vswrCalls>>

\* faulty variant: the manual handler samples the simulated signal too
controlServosManual_sampling(tx_dial, ant_dial) ==
    LET tx_angle == map(tx_dial, IN_MIN, IN_MAX, OUT_MIN, OUT_MAX)
        ant_angle == map(ant_dial, IN_MIN, IN_MAX, OUT_MIN, OUT_MAX)
    IN  /\ tx_servo' = <<tx_angle>>
        /\ ant_servo' = <<ant_angle>>
        /\ serial' = manualLine(tx_dial, ant_dial, tx_angle, ant_angle)
        /\ prev_vswr' = get_vswr(prev_vswr)
        /\ vswrCalls' = vswrCalls + 1

\* controlServosManual, given the two analogRead results
controlServosManual(tx_dial, ant_dial) ==
    LET tx_angle == map(tx_dial, IN_MIN, IN_MAX, OUT_MIN, OUT_MAX)
        ant_angle == map(ant_dial, IN_MIN, IN_MAX, OUT_MIN, OUT_MAX)
    IN  /\ tx_servo' = <<tx_angle>>
        /\ ant_servo' = <<ant_angle>>
        /\ serial' = manualLine(tx_dial, ant_dial, tx_angle, ant_angle)
        /\ UNCHANGED <<prev_vswr, vswrCalls>>

\* ---------------------------------------------------------------- loop ----

Init ==
    /\ pc = "read"
    /\ state = MANUAL
    /\ prev_vswr = 0
    /\ tx_servo = <<>>
    /\ ant_servo = <<>>
    /\ serial = [mode |-> "none"]
    /\ switchState = "unread"
    /\ clock = 0
    /\ reads = 0
    /\ autoCalls = 0
    /\ manualCalls = 0
    /\ vswrCalls = 0
    /\ delays = 0
    /\ prevMode = MANUAL
    /\ lowReads = 0
    /\ lowRun = 0
    /\ runStart = 0
    /\ runAuto = 0
    /\ runManual = 0

\* line 47: state = parseSwitchState();
loop_read ==
    /\ pc = "read"
    /\ reads < MaxCycles
    /\ \E level \in {HIGH, LOW} :
          /\ switchState' = level
          /\ state' = parseSwitchState(level)
          /\ lowReads' = IF level = LOW THEN lowReads + 1 ELSE lowReads
          /\ lowRun' = IF level = LOW THEN lowRun + 1 ELSE 0
          /\ runStart' = IF level = LOW /\ lowRun > 0 THEN runStart ELSE prev_vswr
          /\ runAuto' = IF level = LOW /\ lowRun > 0 THEN runAuto ELSE 0
          /\ runManual' = IF level = LOW /\ lowRun > 0 THEN runManual ELSE 0
    /\ prevMode' = state
    /\ reads' = reads + 1
    /\ pc' = "dispatch"
    /\ UNCHANGED <<prev_vswr, tx_servo, ant_servo, serial, clock,
                   autoCalls, manualCalls, vswrCalls, delays>>

\* faulty variant: the automated branch returns before the delay
loop_automated_noDelay ==
    /\ pc = "dispatch"
    /\ state = AUTOMATED
    /\ controlServosAutomated
    /\ autoCalls' = autoCalls + 1
    /\ runAuto' = runAuto + 1
    /\ pc' = "read"
    /\ UNCHANGED <<state, switchState, clock, reads, manualCalls, delays,
                   prevMode, lowReads, lowRun, runStart, runManual>>

\* lines 50-51: if (state == AUTOMATED) controlServosAutomated();
loop_automated ==
    /\ pc = "dispatch"
    /\ state = AUTOMATED
    /\ controlServosAutomated
    /\ autoCalls' = autoCalls + 1
    /\ runAuto' = runAuto + 1
    /\ pc' = "delay"
    /\ UNCHANGED <<state, switchState, clock, reads, manualCalls, delays,
                   prevMode, lowReads, lowRun, runStart, runManual>>

\* lines 52-53 with the given samples: else if (state == MANUAL) controlServosManual();
manualBranch(tx_dial, ant_dial) ==
    /\ pc = "dispatch"
    /\ state # AUTOMATED
    /\ state = MANUAL
    /\ controlServosManual(tx_dial, ant_dial)
    /\ manualCalls' = manualCalls + 1
    /\ runManual' = runManual + 1
    /\ pc' = "delay"
    /\ UNCHANGED <<state, switchState, clock, reads, autoCalls, delays,
                   prevMode, lowReads, lowRun, runStart, runAuto>>

\* the manual branch with both potentiometers anywhere in DialSamples
loop_manual ==
    \E tx_dial \in DialSamples, ant_dial \in DialSamples :
        manualBranch(tx_dial, ant_dial)

\* line 55: delay(1000);
loop_delay ==
    /\ pc = "delay"
    /\ clock' = clock + DELAY_MS
    /\ delays' = delays + 1
    /\ pc' = "read"
    /\ UNCHANGED <<state, prev_vswr, tx_servo, ant_servo, serial, switchState,
                   reads, autoCalls, manualCalls, vswrCalls, prevMode,
                   lowReads, lowRun, runStart, runAuto, runManual>>

Next ==
    \/ loop_read
    \/ loop_automated
    \/ loop_manual
    \/ loop_delay

Spec == Init /\ [][Next]_vars

\* ------------------------------------ the scaling step as a pure function ----

RawInputs == (-RawBelow) .. RawAbove

\* the state after the first mode read returned HIGH
ScaleInit ==
    /\ pc = "dispatch"
    /\ state = MANUAL
    /\ prev_vswr = 0
    /\ tx_servo = <<>>
    /\ ant_servo = <<>>
    /\ serial = [mode |-> "none"]
    /\ switchState = HIGH
    /\ clock = 0
    /\ reads = 1
    /\ autoCalls = 0
    /\ manualCalls = 0
    /\ vswrCalls = 0
    /\ delays = 0
    /\ prevMode = MANUAL
    /\ lowReads = 0
    /\ lowRun = 0
    /\ runStart = 0
    /\ runAuto = 0
    /\ runManual = 0

\* the manual branch with one channel anywhere in RawInputs and the other at
\* a sampled position
scale_manual ==
    /\ pc = "dispatch"
    /\ \E r \in RawInputs, d \in DialSamples :
          \/ manualBranch(r, d)
          \/ manualBranch(d, r)

ScaleNext ==
    \/ scale_manual
    \/ loop_delay

ScaleSpec == ScaleInit /\ [][ScaleNext]_vars

\* -------------------------------------------------------------- claims ----

\* C1: in a manual cycle whose two samples lie in [0,1023], the value written
\* to the tx servo is floor(tx_dial * 180 / 1023), the value written to the
\* ant servo is floor(ant_dial * 180 / 1023), each from its own
\* potentiometer, and both lie in [0,180] (512 gives 90, 1023 gives 180).
C1_ManualScaling ==
    (/\ serial.mode = MANUAL
     /\ serial.tx_dial \in 0..1023
     /\ serial.ant_dial \in 0..1023)
    => /\ tx_servo = << (serial.tx_dial * 180) \div 1023 >>
       /\ ant_servo = << (serial.ant_dial * 180) \div 1023 >>
       /\ tx_servo[1] \in 0..180
       /\ ant_servo[1] \in 0..180
       /\ (serial.tx_dial = 512 => tx_servo = <<90>>)
       /\ (serial.ant_dial = 1023 => ant_servo = <<180>>)

C1_Witness ==
    /\ pc = "delay"
    /\ serial.mode = MANUAL
    /\ serial.tx_dial = 512
    /\ serial.ant_dial = 1023
    /\ tx_servo = <<90>>
    /\ ant_servo = <<180>>

TruncScaled(r) ==
    IF r >= 0 THEN (r * 180) \div 1023 ELSE -(((-r) * 180) \div 1023)

C3_ParseSwitchState ==
    [][pc = "read"
       => /\ switchState' \in {HIGH, LOW}
          /\ (switchState' = HIGH => state' = MANUAL)
          /\ (switchState' = LOW => state' = AUTOMATED)
          /\ UNCHANGED <<prev_vswr, vswrCalls, tx_servo, ant_servo>>]_vars

C3_Witness ==
    /\ pc = "dispatch"
    /\ switchState = LOW
    /\ state = AUTOMATED
    /\ prevMode = MANUAL
    /\ tx_servo = <<90>>
    /\ ant_servo = <<180>>
    /\ prev_vswr = 3

\* C4: the counter starts at 0 and after k calls of get_vswr it equals
\* (3k) mod 100, which is also what the k-th call returned; it is 2 after 34
\* calls and always in [0,100).
C4_VswrAfterKCalls ==
    /\ prev_vswr = (3 * vswrCalls) % 100
    /\ prev_vswr \in 0..99
    /\ (vswrCalls = 0 => prev_vswr = 0)
    /\ (vswrCalls = 34 => prev_vswr = 2)
    /\ (serial.mode = AUTOMATED => serial.vswr = (3 * vswrCalls) % 100)

C4_Witness ==
    /\ vswrCalls = 34
    /\ prev_vswr = 2
    /\ serial.mode = AUTOMATED
    /\ serial.vswr = 2

\* C5: after n >= 1 consecutive iterations in which the switch read LOW, the
\* automated handler has run exactly n times in them and the manual handler
\* not at all, each of them advanced the counter by 3 modulo 100, and the
\* counter is (c0 + 3n) mod 100 for c0 its value before the first of them.
C5_LowRun ==
    /\ []((pc # "dispatch" /\ lowRun >= 1)
          => /\ runAuto = lowRun
             /\ runManual = 0
             /\ prev_vswr = (runStart + 3 * lowRun) % 100)
    /\ [][(pc = "dispatch" /\ switchState = LOW)
          => /\ autoCalls' = autoCalls + 1
             /\ manualCalls' = manualCalls
             /\ prev_vswr' = (prev_vswr + 3) % 100]_vars

C5_Witness ==
    /\ pc = "read"
    /\ lowRun = 3
    /\ runAuto = 3
    /\ runManual = 0
    /\ runStart = 3
    /\ prev_vswr = 12

\* C6: every call of the automated handler takes exactly one sample v from
\* get_vswr, writes floor(v * 180 / 1023) to the tx servo and 0 to the ant
\* servo whatever the ant servo held; the first call after startup has v = 3
\* and writes 0 and 0.
C6_AutomatedHandler ==
    /\ [][(pc = "dispatch" /\ state = AUTOMATED)
          => /\ vswrCalls' = vswrCalls + 1
             /\ serial'.mode = AUTOMATED
             /\ serial'.vswr = prev_vswr'
             /\ tx_servo' = << (serial'.vswr * 180) \div 1023 >>
             /\ serial'.tx_angle = tx_servo'[1]
             /\ ant_servo' = <<0>>]_vars
    /\ []((autoCalls = 1 /\ serial.mode = AUTOMATED)
          => /\ serial.vswr = 3
             /\ tx_servo = <<0>>
             /\ ant_servo = <<0>>)

C6_Witness ==
    /\ pc = "delay"
    /\ autoCalls = 1
    /\ manualCalls >= 1
    /\ prevMode = MANUAL
    /\ serial.mode = AUTOMATED
    /\ serial.vswr = 3
    /\ tx_servo = <<0>>
    /\ ant_servo = <<0>>

\* C7: an iteration reads the mode once, then runs exactly one of the two
\* handlers, then runs the 1000-unit delay once, then the next iteration
\* starts; no mode read happens before the previous iteration's delay, and
\* the loop never stops (within the iterations explored).
C7_CycleOrder ==
    /\ [][/\ (pc = "read"
              => /\ pc' = "dispatch"
                 /\ reads' = reads + 1
                 /\ UNCHANGED <<autoCalls, manualCalls, delays, clock>>)
          /\ (pc = "dispatch"
              => /\ pc' = "delay"
                 /\ \/ autoCalls' = autoCalls + 1 /\ manualCalls' = manualCalls
                    \/ autoCalls' = autoCalls /\ manualCalls' = manualCalls + 1
                 /\ UNCHANGED <<reads, delays, clock>>)
          /\ (pc = "delay"
              => /\ pc' = "read"
                 /\ delays' = delays + 1
                 /\ clock' = clock + 1000
                 /\ UNCHANGED <<reads, autoCalls, manualCalls>>)]_vars
    /\ [](/\ pc \in {"read", "dispatch", "delay"}
          /\ clock = 1000 * delays
          /\ (pc = "read" => delays = reads /\ autoCalls + manualCalls = reads)
          /\ (pc = "dispatch" => delays = reads - 1 /\ autoCalls + manualCalls = reads - 1)
          /\ (pc = "delay" => delays = reads - 1 /\ autoCalls + manualCalls = reads))
    /\ []((pc # "read" \/ reads < MaxCycles) => ENABLED Next)

C7_Witness ==
    /\ pc = "read"
    /\ reads = 3
    /\ delays = 3
    /\ clock = 3000
    /\ autoCalls = 2
    /\ manualCalls = 1

\* C8: the mode at dispatch, and the handler that runs, follow from the level
\* read in the same iteration alone (HIGH: manual, LOW: automated), whatever
\* the mode of the iteration before and the initial MANUAL.
C8_NoHysteresis ==
    /\ []((pc # "read")
          => state = (IF switchState = HIGH THEN MANUAL ELSE AUTOMATED))
    /\ []((pc = "delay")
          => serial.mode = (IF switchState = HIGH THEN MANUAL ELSE AUTOMATED))
    /\ [][(pc = "dispatch")
          => IF switchState = HIGH
             THEN manualCalls' = manualCalls + 1 /\ autoCalls' = autoCalls
             ELSE autoCalls' = autoCalls + 1 /\ manualCalls' = manualCalls]_vars

C8_Witness ==
    /\ pc = "delay"
    /\ prevMode = AUTOMATED
    /\ switchState = HIGH
    /\ state = MANUAL
    /\ serial.mode = MANUAL
    /\ autoCalls = 2
    /\ manualCalls = 2

\* C9: in every automated cycle, whatever cycles came before, the value
\* written to the tx servo is at least 0 and at most 18, the sample it comes
\* from being in [0,100).
C9_AutomatedTxRange ==
    serial.mode = AUTOMATED
    => /\ serial.vswr \in 0..99
       /\ tx_servo = <<serial.tx_angle>>
       /\ tx_servo[1] >= 0
       /\ tx_servo[1] <= 18

C9_Witness ==
    /\ pc = "delay"
    /\ serial.mode = AUTOMATED
    /\ serial.vswr = 99
    /\ tx_servo = <<17>>
    /\ manualCalls >= 1

\* C10: a manual cycle (mode read, manual handler, delay) leaves the counter
\* unchanged, so after any number of whole iterations the counter is
\* (3 * a) mod 100 for a the number of iterations whose mode read was LOW.
C10_CounterOnlyAutomated ==
    /\ [][(state' = MANUAL) => prev_vswr' = prev_vswr]_vars
    /\ [](pc = "read" => prev_vswr = (3 * lowReads) % 100)

C10_Witness ==
    /\ pc = "read"
    /\ serial.mode = MANUAL
    /\ lowReads = 2
    /\ manualCalls = 2
    /\ prev_vswr = 6

====
